---- MODULE Spec2Model ----
(***************************************************************************)
(* Skill Gap Analyzer: the lexical service (src/api_main.py) and the       *)
(* semantic service (src/api_ml_implementation.py).                        *)
(*                                                                         *)
(* Texts are sequences of one-character strings.  Scores (confidence,      *)
(* similarity, importance) are integers in thousandths: 0.55 is 550.       *)
(***************************************************************************)
EXTENDS Integers, Sequences, FiniteSets, TLC

VARIABLES
    skills,                  \* taxonomy["skills"], loaded at import
    SKILL_BY_ID,             \* id -> skill record
    PATTERNS,                \* id -> compiled pattern (lexical service)
    SKILL_EMBEDDINGS,        \* the encoded variant texts, row by row (semantic service)
    skill_variant_map,       \* row -> <<skill id, variant text>>
    ML_SIMILARITY_THRESHOLD, \* configured threshold (semantic service)
    variant,                 \* which service runs: "lexical" or "semantic"
    worker,                  \* per request slot: position in analyze and its locals
    probe                    \* a single extract_skills call and its result

vars == <<skills, SKILL_BY_ID, PATTERNS, SKILL_EMBEDDINGS, skill_variant_map,
          ML_SIMILARITY_THRESHOLD, variant, worker, probe>>

shared == <<skills, SKILL_BY_ID, PATTERNS, SKILL_EMBEDDINGS, skill_variant_map,
            ML_SIMILARITY_THRESHOLD, variant>>

(***************************************************************************)
(* Characters                                                              *)
(***************************************************************************)
UpperChars == <<"A","B","C","D","E","F","G","H","I","J","K","L","M",
                "N","O","P","Q","R","S","T","U","V","W","X","Y","Z">>
LowerChars == <<"a","b","c","d","e","f","g","h","i","j","k","l","m",
                "n","o","p","q","r","s","t","u","v","w","x","y","z">>
DigitChars == <<"0","1","2","3","4","5","6","7","8","9">>

\* Code point order of the characters the texts use.
CharOrder == <<"\t", "\n", " ", "!", "#", "+", ",", "-", ".", "/">>
             \o DigitChars \o <<"?">> \o UpperChars \o LowerChars

Range(s) == {s[i] : i \in 1..Len(s)}

Chars == Range(CharOrder)

CodeOf == [c \in Chars |-> CHOOSE i \in 1..Len(CharOrder) : CharOrder[i] = c]

\* str.lower() on one character
LowerOf == [c \in Chars |->
              IF \E i \in 1..26 : UpperChars[i] = c
              THEN LowerChars[CHOOSE i \in 1..26 : UpperChars[i] = c]
              ELSE c]

\* str.lower()
Lower(text) == [i \in 1..Len(text) |-> LowerOf[text[i]]]

\* the class [a-z0-9]
IsAlnum(c) == c \in Range(LowerChars) \cup Range(DigitChars)

\* the class \s
IsSpace(c) == c \in {" ", "\n", "\t"}

\* the class [a-z0-9+\-#/\.\s]
IsKept(c) == IsAlnum(c) \/ IsSpace(c) \/ c \in {"+", "-", "#", "/", "."}

\* a < b for Python strings (code point order, shorter prefix first)
RECURSIVE StrLess(_, _)
StrLess(a, b) ==
    IF a = <<>> THEN b # <<>>
    ELSE IF b = <<>> THEN FALSE
    ELSE IF a[1] # b[1] THEN CodeOf[a[1]] < CodeOf[b[1]]
    ELSE StrLess(Tail(a), Tail(b))

\* sorted(set of strings)
RECURSIVE SortedStrs(_)
SortedStrs(S) ==
    IF S = {} THEN <<>>
    ELSE LET m == CHOOSE x \in S : \A y \in S \ {x} : StrLess(x, y)
         IN  <<m>> \o SortedStrs(S \ {m})

\* re.sub(r"\s+", " ", text).strip()
RECURSIVE CollapseFrom(_, _, _)
CollapseFrom(t, i, acc) ==
    IF i > Len(t) THEN acc
    ELSE IF IsSpace(t[i]) THEN CollapseFrom(t, i + 1, acc)
    ELSE IF acc # <<>> /\ IsSpace(t[i - 1])
         THEN CollapseFrom(t, i + 1, acc \o <<" ", t[i]>>)
         ELSE CollapseFrom(t, i + 1, Append(acc, t[i]))

CollapseWs(t) == CollapseFrom(t, 1, <<>>)

MinInt(a, b) == IF a <= b THEN a ELSE b

\* a literal pattern p matches t at position i
MatchAt(p, t, i) ==
    /\ i + Len(p) - 1 <= Len(t)
    /\ \A k \in 1..Len(p) : t[i + k - 1] = p[k]

(***************************************************************************)
(* Taxonomy (skills_taxonomy.json): the records the services load.         *)
(***************************************************************************)
Python == <<"P","y","t","h","o","n">>
Python3 == <<"P","y","t","h","o","n","3">>
Go == <<"G","o">>
Kubernetes == <<"K","u","b","e","r","n","e","t","e","s">>
K8s == <<"k","8","s">>
Rust == <<"R","u","s","t">>

\* a record of the catalog; level "" stands for an absent "level" key
SkillGo ==
    [id |-> "go", canonical_name |-> Go, aliases |-> <<Go>>,
     roles |-> <<"backend", "fullstack">>, category |-> "Languages", level |-> ""]
SkillKubernetes ==
    [id |-> "kubernetes", canonical_name |-> Kubernetes, aliases |-> <<K8s>>,
     roles |-> <<"backend">>, category |-> "DevOps Fundamentals", level |-> ""]
SkillPython ==
    [id |-> "python", canonical_name |-> Python, aliases |-> <<Python, Python3>>,
     roles |-> <<"backend">>, category |-> "APIs & Integration", level |-> "core"]
SkillRust ==
    [id |-> "rust", canonical_name |-> Rust, aliases |-> <<>>,
     roles |-> <<"backend">>, category |-> "Languages", level |-> ""]

\* a catalog as section 6 of the spec requires it (every aliases list non-empty)
MainTaxonomy == <<SkillGo, SkillKubernetes, SkillPython>>
\* a catalog with a record whose aliases list is empty
SparseTaxonomy == <<SkillGo, SkillPython, SkillRust>>

\* the characters of a skill id, for sorted()
IdText == [go |-> <<"g","o">>,
           kubernetes |-> <<"k","u","b","e","r","n","e","t","e","s">>,
           python |-> <<"p","y","t","h","o","n">>,
           rust |-> <<"r","u","s","t">>]

IdLess(a, b) == StrLess(IdText[a], IdText[b])

\* SKILL_BY_ID = {s["id"]: s for s in skills}
BuildSkillById(sk) ==
    [sid \in {sk[i].id : i \in 1..Len(sk)} |->
        sk[CHOOSE i \in 1..Len(sk) :
              sk[i].id = sid /\ \A j \in (i + 1)..Len(sk) : sk[j].id # sid]]

(***************************************************************************)
(* Lexical service                                                         *)
(***************************************************************************)
\* normalize_text: lower, characters outside the kept class become a space,
\* whitespace runs collapse, strip
normalize_text(text) ==
    LET low == Lower(text)
        kept == [i \in 1..Len(low) |-> IF IsKept(low[i]) THEN low[i] ELSE " "]
    IN  CollapseWs(kept)

\* "|".join(escaped): the alternatives of the group; an empty list joins to the
\* empty string, which is one empty alternative
JoinAlternatives(escaped) == IF escaped = <<>> THEN << <<>> >> ELSE escaped

\* compile_patterns: id -> the alternatives of (?<![a-z0-9])(a1|a2|...)(?![a-z0-9])
compile_patterns(sk) ==
    [sid \in {sk[i].id : i \in 1..Len(sk)} |->
        LET s == BuildSkillById(sk)[sid]
        IN  JoinAlternatives([k \in 1..Len(s.aliases) |-> Lower(s.aliases[k])])]

\* a pattern without the lookbehind
LookBehindMissing(t, i) == TRUE

\* the lookbehind (?<![a-z0-9]) at position i
LookBehindOk(t, i) == i = 1 \/ ~IsAlnum(t[i - 1])

\* the lookahead (?![a-z0-9]) after a match of length n at position i
LookAheadOk(t, i, n) == i + n > Len(t) \/ ~IsAlnum(t[i + n])

\* both boundaries of a match of length n at position i
BoundedAt(t, i, n) == LookBehindOk(t, i) /\ LookAheadOk(t, i, n)

\* the alternative the regex engine takes at position i: the first one, in the
\* order of the list, that matches with both boundaries (0: none); after an
\* empty match at i the engine retries at i for a non-empty match only
AltAt(alts, t, i, mustAdvance) ==
    LET ok(k) == /\ MatchAt(alts[k], t, i)
                 /\ BoundedAt(t, i, Len(alts[k]))
                 /\ (mustAdvance => Len(alts[k]) > 0)
    IN  IF \E k \in 1..Len(alts) : ok(k)
        THEN CHOOSE k \in 1..Len(alts) : ok(k) /\ \A j \in 1..(k - 1) : ~ok(j)
        ELSE 0

\* pat.finditer(t): the matched strings, leftmost first, not overlapping
RECURSIVE FindIter(_, _, _, _)
FindIter(alts, t, i, mustAdvance) ==
    IF i > Len(t) + 1 THEN <<>>
    ELSE LET k == AltAt(alts, t, i, mustAdvance)
         IN  IF k = 0 THEN FindIter(alts, t, i + 1, FALSE)
             ELSE IF Len(alts[k]) = 0
                  THEN <<alts[k]>> \o FindIter(alts, t, i, TRUE)
                  ELSE <<alts[k]>> \o FindIter(alts, t, i + Len(alts[k]), FALSE)

ConfBase == 550
ConfPerHit == 80
One == 1000

\* conf = min(1.0, 0.55 + 0.08 * len(hits))
LexConfidence(hits) == MinInt(One, ConfBase + ConfPerHit * Cardinality(hits))

\* extract_skills (api_main.py): id -> SkillFound, for the skills of the role
\* whose pattern has at least one hit
extract_skills(text, role) ==
    LET t == normalize_text(text)
        hitsOf(sid) == Range(FindIter(PATTERNS[sid], t, 1, FALSE))
        ids == {sid \in DOMAIN PATTERNS :
                   /\ role \in Range(SKILL_BY_ID[sid].roles)
                   /\ hitsOf(sid) # {}}
    IN  [sid \in ids |->
            [skill_id |-> sid,
             found_as |-> SortedStrs(hitsOf(sid)),
             confidence |-> LexConfidence(hitsOf(sid))]]

\* len(re.findall(p, t)) for a literal p between the two boundaries
RECURSIVE CountBounded(_, _, _)
CountBounded(p, t, i) ==
    IF i > Len(t) + 1 THEN 0
    ELSE IF MatchAt(p, t, i) /\ BoundedAt(t, i, Len(p))
         THEN 1 + (IF Len(p) = 0 THEN CountBounded(p, t, i + 1)
                   ELSE CountBounded(p, t, i + Len(p)))
         ELSE CountBounded(p, t, i + 1)

RECURSIVE SumSeq(_)
SumSeq(s) == IF s = <<>> THEN 0 ELSE s[1] + SumSeq(Tail(s))

required_words ==
    << <<"r","e","q","u","i","r","e","d">>,
       <<"m","u","s","t">>,
       <<"e","s","s","e","n","t","i","a","l">>,
       <<"m","a","n","d","a","t","o","r","y">>,
       <<"n","e","e","d"," ","t","o">>,
       <<"s","t","r","o","n","g","l","y"," ","p","r","e","f","e","r","r","e","d">> >>

Window == 110

\* re.search(a.{0,110}b, t): a, then at most Window characters none of which
\* is a newline, then b
Follows(a, b, t) ==
    \E i \in 1..(Len(t) + 1) :
        /\ MatchAt(a, t, i)
        /\ \E j \in (i + Len(a))..MinInt(Len(t) + 1, i + Len(a) + Window) :
              /\ MatchAt(b, t, j)
              /\ \A k \in (i + Len(a))..(j - 1) : t[k] # "\n"

\* re.search(rf"{rw}.{{0,110}}{name}|{name}.{{0,110}}{rw}", t)
NearRequired(rw, name, t) == Follows(rw, name, t) \/ Follows(name, rw, t)

ImpBase == 250
ImpPerOccurrence == 120
RequiredBoost == 250
CoreBoost == 100

\* importance_score (api_main.py)
importance_score(job_text, skill_id) ==
    LET jt == normalize_text(job_text)
        meta == SKILL_BY_ID[skill_id]
        count == SumSeq([k \in 1..Len(meta.aliases) |->
                           CountBounded(normalize_text(meta.aliases[k]), jt, 1)])
        base0 == MinInt(One, ImpBase + ImpPerOccurrence * count)
        canonical == normalize_text(meta.canonical_name)
        base1 == IF \E r \in 1..Len(required_words) :
                        NearRequired(required_words[r], canonical, jt)
                 THEN MinInt(One, base0 + RequiredBoost)
                 ELSE base0
    IN  IF meta.level = "core" THEN MinInt(One, base1 + CoreBoost) ELSE base1

HighThreshold == 780
MediumThreshold == 550

\* priority
priority(imp) ==
    IF imp >= HighThreshold THEN "High"
    ELSE IF imp >= MediumThreshold THEN "Medium"
    ELSE "Low"

\* the roadmap templates by category
templates ==
    [c \in {"Cloud (AWS)", "Cloud (Azure)", "DevOps Fundamentals", "Auth & Security",
            "Databases", "APIs & Integration", "Frontend Concepts",
            "Architecture & Patterns"} |->
       CASE c = "Cloud (AWS)" ->
              <<"Cloud basics", "IAM permissions", "Networking basics (VPC)",
                "Deploy a small API", "Monitoring + cost basics">>
         [] c = "Cloud (Azure)" ->
              <<"Cloud basics", "Identity (Entra ID)", "Networking basics (VNet)",
                "Deploy a Function/App", "Monitoring + cost basics">>
         [] c = "DevOps Fundamentals" ->
              <<"Git workflow", "Containers", "CI pipeline", "CD pipeline",
                "Observability basics">>
         [] c = "Auth & Security" ->
              <<"Threat basics", "OAuth/JWT", "Secure storage", "OWASP checks",
                "Audit logging">>
         [] c = "Databases" ->
              <<"Schema design", "Indexes", "Transactions", "Query tuning",
                "Backup/restore basics">>
         [] c = "APIs & Integration" ->
              <<"REST design", "Validation", "Auth", "Docs (OpenAPI)",
                "Performance + caching">>
         [] c = "Frontend Concepts" ->
              <<"Core fundamentals", "Component patterns", "State management",
                "Testing", "Performance + a11y">>
         [] OTHER ->
              <<"Baseline design", "Reliability patterns", "Scaling", "Tradeoffs",
                "Hands-on refactor">>]

\* suggested_path
suggested_path(skill_id) ==
    LET cat == SKILL_BY_ID[skill_id].category
    IN  IF cat \in DOMAIN templates THEN templates[cat]
        ELSE <<"Learn fundamentals", "Build a small project using it",
               "Add a portfolio example">>

\* round(x, 2) on thousandths: to the nearest hundredth, an exact half to the
\* even hundredth
Round2(x) ==
    LET q == x \div 10
        r == x % 10
    IN  IF r < 5 THEN 10 * q
        ELSE IF r > 5 THEN 10 * (q + 1)
        ELSE IF q % 2 = 0 THEN 10 * q ELSE 10 * (q + 1)

(***************************************************************************)
(* Semantic service                                                        *)
(***************************************************************************)
DefaultThreshold == 350

\* skill_variant_map: for every skill its canonical name, then its aliases
RECURSIVE BuildVariantMap(_)
BuildVariantMap(sk) ==
    IF sk = <<>> THEN <<>>
    ELSE LET s == sk[1]
         IN  << <<s.id, s.canonical_name>> >>
             \o [k \in 1..Len(s.aliases) |-> <<s.id, s.aliases[k]>>]
             \o BuildVariantMap(Tail(sk))

\* skill_variants, the texts model.encode turns into SKILL_EMBEDDINGS
BuildVariants(sk) ==
    [i \in 1..Len(BuildVariantMap(sk)) |-> BuildVariantMap(sk)[i][2]]

\* normalize_text (api_ml_implementation.py): whitespace runs collapse, strip
normalize_text_ml(text) == CollapseWs(text)

\* c.strip()
RECURSIVE Strip(_)
Strip(c) ==
    IF c = <<>> THEN c
    ELSE IF IsSpace(c[1]) THEN Strip(Tail(c))
    ELSE IF IsSpace(c[Len(c)]) THEN Strip(SubSeq(c, 1, Len(c) - 1))
    ELSE c

\* re.split(r"(?<=[.!?])\s+", text)
RECURSIVE SplitFrom(_, _, _, _)
SplitFrom(t, i, cur, acc) ==
    IF i > Len(t) THEN Append(acc, cur)
    ELSE IF IsSpace(t[i]) /\ i > 1 /\ t[i - 1] \in {".", "!", "?"}
         THEN LET rest == {j \in (i + 1)..Len(t) : ~IsSpace(t[j])}
                  next == IF rest = {} THEN Len(t) + 1
                          ELSE CHOOSE j \in rest : \A k \in rest : j <= k
              IN  SplitFrom(t, next, <<>>, Append(acc, cur))
         ELSE SplitFrom(t, i + 1, Append(cur, t[i]), acc)

MinChunkLen == 5

\* chunk_text: the stripped pieces longer than MinChunkLen characters
chunk_text(text) ==
    LET raw == SplitFrom(text, 1, <<>>, <<>>)
        stripped == [k \in 1..Len(raw) |-> Strip(raw[k])]
        Keep(c) == Len(c) > MinChunkLen
    IN  SelectSeq(stripped, Keep)

MaxOf(S) == CHOOSE x \in S : \A y \in S : y <= x

\* extract_skills (api_ml_implementation.py).  scores is util.cos_sim of the
\* chunk embeddings and SKILL_EMBEDDINGS: one row per chunk, one column per
\* variant.
extract_skills_ml(text, role, scores) ==
    LET chunks == chunk_text(normalize_text_ml(text))
        cols == 1..Len(skill_variant_map)
        max_scores == [idx \in cols |->
                          MaxOf({scores[c][idx] : c \in 1..Len(scores)})]
        kept == {idx \in cols :
                    /\ ~(max_scores[idx] < ML_SIMILARITY_THRESHOLD)
                    /\ role \in Range(SKILL_BY_ID[skill_variant_map[idx][1]].roles)}
        ids == {skill_variant_map[idx][1] : idx \in kept}
        of(sid) == {idx \in kept : skill_variant_map[idx][1] = sid}
    IN  IF chunks = <<>> THEN <<>>
        ELSE [sid \in ids |->
                [skill_id |-> sid,
                 found_as |-> SortedStrs({skill_variant_map[idx][2] : idx \in of(sid)}),
                 confidence |->
                     MinInt(One, MaxOf({max_scores[idx] : idx \in of(sid)}))]]

\* importance_score (api_ml_implementation.py)
importance_score_ml(job_text, skill_id, base_confidence) ==
    LET meta == SKILL_BY_ID[skill_id]
        names == <<meta.canonical_name>> \o meta.aliases
        jt_lower == Lower(job_text)
        boost == IF \E n \in 1..Len(names) : \E r \in 1..Len(required_words) :
                       NearRequired(required_words[r], Lower(names[n]), jt_lower)
                 THEN RequiredBoost ELSE 0
        final_score == MinInt(One, base_confidence + boost)
    IN  IF meta.level = "core" THEN MinInt(One, final_score + CoreBoost)
        ELSE final_score

(***************************************************************************)
(* analyze, the steps both services share                                  *)
(***************************************************************************)
\* sorted(ids)
RECURSIVE SortedIds(_)
SortedIds(S) ==
    IF S = {} THEN <<>>
    ELSE LET m == CHOOSE x \in S : \A y \in S \ {x} : IdLess(x, y)
         IN  <<m>> \o SortedIds(S \ {m})

\* matched_ids = sorted(set(resume_sk.keys()) & set(job_sk.keys()))
MatchedIds(resume_sk, job_sk) == SortedIds(DOMAIN resume_sk \cap DOMAIN job_sk)

\* missing_ids without the subtraction of the resume's ids
MissingIdsNoSubtraction(resume_sk, job_sk) == SortedIds(DOMAIN job_sk)

\* missing_ids = sorted(set(job_sk.keys()) - set(resume_sk.keys()))
MissingIds(resume_sk, job_sk) == SortedIds(DOMAIN job_sk \ DOMAIN resume_sk)

\* an insertion that puts x before the entries of equal key
RECURSIVE InsertDescUnstable(_, _)
InsertDescUnstable(sorted, x) ==
    IF sorted = <<>> THEN <<x>>
    ELSE IF sorted[1][2] > x[2]
         THEN <<sorted[1]>> \o InsertDescUnstable(Tail(sorted), x)
    ELSE <<x>> \o sorted

\* the place of x in a list kept in descending key order by a stable sort:
\* after every entry whose key is not smaller
RECURSIVE InsertDesc(_, _)
InsertDesc(sorted, x) ==
    IF sorted = <<>> THEN <<x>>
    ELSE IF sorted[1][2] >= x[2] THEN <<sorted[1]>> \o InsertDesc(Tail(sorted), x)
    ELSE <<x>> \o sorted

\* the sort without reverse=True: ascending keys
RECURSIVE SortAscending(_)
SortAscending(pairs) ==
    IF pairs = <<>> THEN <<>>
    ELSE LET m == CHOOSE k \in 1..Len(pairs) :
                     /\ \A j \in 1..Len(pairs) : pairs[k][2] <= pairs[j][2]
                     /\ \A j \in 1..(k - 1) : pairs[j][2] # pairs[k][2]
         IN  <<pairs[m]>> \o SortAscending(SubSeq(pairs, 1, m - 1)
                                           \o SubSeq(pairs, m + 1, Len(pairs)))

\* ranked_missing.sort(key=lambda x: x[1], reverse=True): stable, entries with
\* equal keys keep their order
RECURSIVE SortByImportance(_)
SortByImportance(pairs) ==
    IF pairs = <<>> THEN <<>>
    ELSE InsertDesc(SortByImportance(SubSeq(pairs, 1, Len(pairs) - 1)),
                    pairs[Len(pairs)])

\* extract_skills of the running service
Extract(text, role, scores) ==
    IF variant = "lexical" THEN extract_skills(text, role)
    ELSE extract_skills_ml(text, role, scores)

\* importance_score of the running service, as analyze calls it
Importance(job_text, sid, job_sk) ==
    IF variant = "lexical" THEN importance_score(job_text, sid)
    ELSE importance_score_ml(job_text, sid, job_sk[sid].confidence)

\* the loop that fills ranked_missing, then the sort
RankedMissing(job_text, resume_sk, job_sk) ==
    LET ids == MissingIds(resume_sk, job_sk)
    IN  SortByImportance([k \in 1..Len(ids) |->
                             <<ids[k], Importance(job_text, ids[k], job_sk)>>])

\* the matched list of the response
MatchedOut(ids, resume_sk) ==
    [k \in 1..Len(ids) |->
        [skill_id |-> ids[k],
         skill |-> SKILL_BY_ID[ids[k]].canonical_name,
         category |-> SKILL_BY_ID[ids[k]].category,
         found_as |-> resume_sk[ids[k]].found_as,
         confidence |-> Round2(resume_sk[ids[k]].confidence)]]

\* the reason string of the running service
Reason ==
    IF variant = "lexical"
    THEN "Ranked by frequency + 'required/must' proximity in the job text (heuristic)."
    ELSE "Analyzed via ML semantic similarity + requirement context."

\* the missing list of the response
MissingOut(ranked) ==
    [k \in 1..Len(ranked) |->
        [skill_id |-> ranked[k][1],
         skill |-> SKILL_BY_ID[ranked[k][1]].canonical_name,
         category |-> SKILL_BY_ID[ranked[k][1]].category,
         importance |-> Round2(ranked[k][2]),
         priority |-> priority(ranked[k][2]),
         reason |-> Reason,
         suggested_path |-> suggested_path(ranked[k][1])]]

\* AnalyzeResponse
Response(role, matched, missing) ==
    [matched |-> matched,
     missing |-> missing,
     summary |-> [target_role |-> role,
                  matched_count |-> Len(matched),
                  missing_count |-> Len(missing)]]

(***************************************************************************)
(* Requests                                                                *)
(***************************************************************************)
MinLength == 30

RECURSIVE Rep(_, _)
Rep(c, n) == IF n = 0 THEN <<>> ELSE <<c>> \o Rep(c, n - 1)

\* every concatenation of at most n pieces of V
RECURSIVE TextsUpTo(_, _)
TextsUpTo(V, n) ==
    IF n = 0 THEN {<<>>}
    ELSE LET S == TextsUpTo(V, n - 1)
         IN  S \cup {t \o p : t \in S, p \in V}

\* a text as written and the same text followed by blank filling
WithFilling(S) == S \cup {t \o Rep(" ", MinLength) : t \in S}

\* AnalyzeRequest accepts a text of at least MinLength characters
Accepted(S) == {t \in WithFilling(S) : Len(t) >= MinLength}

Must == <<"m","u","s","t">>
MustNl == Must \o <<"\n">>
SpPython == <<" ">> \o Python
SpGo == <<" ">> \o Go
SpK8s == <<" ">> \o K8s

MaxJobPieces == 2

JobVocab == {Must, MustNl, SpPython, SpGo, SpK8s}
JobTexts == Accepted(TextsUpTo(JobVocab, MaxJobPieces))
ResumeTexts == Accepted({<<>>, SpPython, SpPython \o SpGo})
TargetRoles == {"backend", "fullstack"}

\* one row of the similarity matrix: the variants whose text is in hot score
\* lvl, the others floor (equal texts have equal embeddings, so equal scores)
RowOf(hot, lvl, floor) ==
    [idx \in 1..Len(SKILL_EMBEDDINGS) |->
        IF SKILL_EMBEDDINGS[idx] \in hot THEN lvl ELSE floor]

\* similarity values: one unit under the default threshold, the threshold,
\* a value whose second decimal rounds up, a value above 1 by rounding error
BelowThreshold == DefaultThreshold - 1
HotLevels == {DefaultThreshold, 776, One + 1}
JobHotSets == {{}, {Python}, {Python3}, {K8s}, {Go, K8s}, {Python, Go}}
ResumeHotSets == {{}, {Python}, {Go}}

JobRows == {RowOf(h, l, BelowThreshold) : h \in JobHotSets, l \in HotLevels}
ResumeRows == {RowOf(h, DefaultThreshold, BelowThreshold) : h \in ResumeHotSets}

\* the matrices util.cos_sim can return for a text: one row per chunk; the
\* lexical service computes none
ScoresFor(text, rows) ==
    IF variant = "lexical" THEN {<<>>}
    ELSE LET n == Len(chunk_text(normalize_text_ml(text)))
         IN  [1..n -> rows]

Workers == {1}

NoReq == [resume_text |-> <<>>, job_text |-> <<>>, target_role |-> ""]
NoResp == Response("", <<>>, <<>>)
Idle == [pc |-> "idle", req |-> NoReq, resume_scores |-> <<>>, job_scores |-> <<>>,
         resume_sk |-> <<>>, job_sk |-> <<>>, matched_ids |-> <<>>,
         ranked_missing |-> <<>>, resp |-> NoResp]
NoProbe == [pc |-> "none", text |-> <<>>, role |-> "", result |-> <<>>]

\* module import: the taxonomy sk is loaded and indexed, the patterns are
\* compiled, the variants are encoded
Loaded(sk, v, threshold) ==
    /\ skills = sk
    /\ SKILL_BY_ID = BuildSkillById(sk)
    /\ PATTERNS = compile_patterns(sk)
    /\ SKILL_EMBEDDINGS = BuildVariants(sk)
    /\ skill_variant_map = BuildVariantMap(sk)
    /\ ML_SIMILARITY_THRESHOLD = threshold
    /\ variant = v

Init ==
    /\ \E v \in {"lexical", "semantic"} : Loaded(MainTaxonomy, v, DefaultThreshold)
    /\ worker = [w \in Workers |-> Idle]
    /\ probe = NoProbe

\* the locals of analyze once it returns, for a request and the two matrices
Analyzed(req, resume_scores, job_scores) ==
    LET resume_sk == Extract(req.resume_text, req.target_role, resume_scores)
        job_sk == Extract(req.job_text, req.target_role, job_scores)
        matched_ids == MatchedIds(resume_sk, job_sk)
        ranked_missing == RankedMissing(req.job_text, resume_sk, job_sk)
    IN  [pc |-> "done", req |-> req,
         resume_scores |-> resume_scores, job_scores |-> job_scores,
         resume_sk |-> resume_sk, job_sk |-> job_sk,
         matched_ids |-> matched_ids, ranked_missing |-> ranked_missing,
         resp |-> Response(req.target_role,
                           MatchedOut(matched_ids, resume_sk),
                           MissingOut(ranked_missing))]

\* POST /analyze served from start to end
analyze(w) ==
    /\ worker[w].pc = "idle"
    /\ \E rt \in ResumeTexts, jt \in JobTexts, role \in TargetRoles :
         \E rs \in ScoresFor(rt, ResumeRows), js \in ScoresFor(jt, JobRows) :
            worker' = [worker EXCEPT ![w] =
                Analyzed([resume_text |-> rt, job_text |-> jt, target_role |-> role],
                         rs, js)]
    /\ UNCHANGED <<shared, probe>>

\* the response is sent; nothing of the request is kept
Return(w) ==
    /\ worker[w].pc = "done"
    /\ worker' = [worker EXCEPT ![w] = Idle]
    /\ UNCHANGED <<shared, probe>>

Next == \E w \in Workers : analyze(w) \/ Return(w)

Spec == Init /\ [][Next]_vars

(***************************************************************************)
(* Properties of analyze                                                   *)
(***************************************************************************)
Done == {w \in DOMAIN worker : worker[w].pc = "done"}

IdsOf(list) == {list[k].skill_id : k \in 1..Len(list)}

\* C1: no id is both matched and missing; every missing id was extracted from
\* the job text and not from the resume text; every matched id was extracted
\* from both; no id outside the two extraction results is reported.
C1_Partition ==
    \A w \in Done :
        LET matched == IdsOf(worker[w].resp.matched)
            missing == IdsOf(worker[w].resp.missing)
            inResume == DOMAIN worker[w].resume_sk
            inJob == DOMAIN worker[w].job_sk
        IN  /\ matched \cap missing = {}
            /\ \A sid \in missing : sid \in inJob /\ sid \notin inResume
            /\ \A sid \in matched : sid \in inJob /\ sid \in inResume
            /\ matched \cup missing \subseteq inResume \cup inJob

\* a response with a matched skill, a missing skill and a skill of the resume
\* the job does not ask for
C1_Witness ==
    \E w \in Done :
        /\ worker[w].resp.matched # <<>>
        /\ worker[w].resp.missing # <<>>
        /\ DOMAIN worker[w].resume_sk \ DOMAIN worker[w].job_sk # {}

\* C2: the missing list is in descending order of the reported importance.
C2_RankingOrder ==
    \A w \in Done :
        LET missing == worker[w].resp.missing
        IN  \A i \in 1..(Len(missing) - 1) :
                missing[i].importance >= missing[i + 1].importance

\* a response whose missing list holds two different importances
C2_Witness ==
    \E w \in Done :
        LET missing == worker[w].resp.missing
        IN  \E i \in 1..(Len(missing) - 1) :
                missing[i].importance > missing[i + 1].importance

\* the claim's reading of "near a requirement keyword": the name and the
\* keyword both occur in the lowercased job text, at most Window characters
\* apart, in either order
Apart(a, b, t) ==
    \E i \in 1..(Len(t) + 1) :
        /\ MatchAt(a, t, i)
        /\ \E j \in (i + Len(a))..MinInt(Len(t) + 1, i + Len(a) + Window) :
              MatchAt(b, t, j)

KeywordNear(name, text) ==
    \E r \in 1..Len(required_words) :
        \/ Apart(required_words[r], Lower(name), Lower(text))
        \/ Apart(Lower(name), required_words[r], Lower(text))

NamesOf(sid) ==
    {SKILL_BY_ID[sid].canonical_name} \cup Range(SKILL_BY_ID[sid].aliases)

\* the base the boost is added to: the occurrence count term of the lexical
\* service, the job-side confidence of the semantic service
BaseOf(w, sid) ==
    IF variant = "lexical"
    THEN LET jt == normalize_text(worker[w].req.job_text)
             aliases == SKILL_BY_ID[sid].aliases
         IN  MinInt(One, ImpBase + ImpPerOccurrence *
                 SumSeq([k \in 1..Len(aliases) |->
                            CountBounded(normalize_text(aliases[k]), jt, 1)]))
    ELSE worker[w].job_sk[sid].confidence

\* C3: the importance of a missing skill is its base, plus one flat 0.25 exactly
\* when one of its names (canonical name or alias) occurs in the job text within
\* Window characters of a requirement keyword, plus the core boost.
C3_ProximityBoost ==
    \A w \in Done :
        \A k \in 1..Len(worker[w].ranked_missing) :
            LET sid == worker[w].ranked_missing[k][1]
                base == BaseOf(w, sid)
                boosted == IF \E n \in NamesOf(sid) :
                                 KeywordNear(n, worker[w].req.job_text)
                           THEN MinInt(One, base + RequiredBoost)
                           ELSE base
            IN  worker[w].ranked_missing[k][2] =
                    IF SKILL_BY_ID[sid].level = "core"
                    THEN MinInt(One, boosted + CoreBoost)
                    ELSE boosted

\* C6: a core skill of the requested role, detected in the job text and not in
\* the resume text, whose canonical name is within Window characters of a
\* requirement keyword, is missing, not matched, with importance >= 0.60 and
\* priority Medium or High.
C6_CoreRequiredSkill ==
    \A w \in Done :
        \A sid \in DOMAIN worker[w].job_sk \ DOMAIN worker[w].resume_sk :
            (/\ SKILL_BY_ID[sid].level = "core"
             /\ worker[w].req.target_role \in Range(SKILL_BY_ID[sid].roles)
             /\ KeywordNear(SKILL_BY_ID[sid].canonical_name, worker[w].req.job_text))
            => /\ sid \notin IdsOf(worker[w].resp.matched)
               /\ \E k \in 1..Len(worker[w].resp.missing) :
                     /\ worker[w].resp.missing[k].skill_id = sid
                     /\ worker[w].resp.missing[k].importance >= 600
                     /\ worker[w].resp.missing[k].priority \in {"Medium", "High"}

\* C9: in every missing entry the priority is the tier of the importance the
\* entry reports: High from 0.78, Medium from 0.55 to under 0.78, Low under 0.55.
C9_PriorityOfReported ==
    \A w \in Done :
        \A k \in 1..Len(worker[w].resp.missing) :
            LET e == worker[w].resp.missing[k]
            IN  /\ (e.priority = "High") = (e.importance >= HighThreshold)
                /\ (e.priority = "Medium") =
                       (e.importance >= MediumThreshold /\ e.importance < HighThreshold)
                /\ (e.priority = "Low") = (e.importance < MediumThreshold)

\* C10: the missing list is in descending order of the computed importance and,
\* among equal importances, in ascending order of skill id; so the order is a
\* function of the request.
C10_TieOrder ==
    \A w \in Done :
        LET ranked == worker[w].ranked_missing
            missing == worker[w].resp.missing
        IN  /\ Len(missing) = Len(ranked)
            /\ \A k \in 1..Len(ranked) : missing[k].skill_id = ranked[k][1]
            /\ \A i \in 1..Len(ranked) : \A j \in (i + 1)..Len(ranked) :
                  \/ ranked[i][2] > ranked[j][2]
                  \/ /\ ranked[i][2] = ranked[j][2]
                     /\ IdLess(ranked[i][1], ranked[j][1])

\* a response with two missing skills of equal computed importance
C10_Witness ==
    \E w \in Done :
        LET ranked == worker[w].ranked_missing
        IN  \E i \in 1..(Len(ranked) - 1) : ranked[i][2] = ranked[i + 1][2]

(***************************************************************************)
(* extract_skills of the lexical service, called on its own                *)
(***************************************************************************)
Lang == <<"l","a","n","g">>
Djan == <<"D","j","a","n">>
Developer == <<" ","d","e","v","e","l","o","p","e","r">>

MaxExtractPieces == 2

ExtractVocab == {Go, Lang, Djan, Developer, Python3, <<".">>, <<",">>}
ExtractTexts == TextsUpTo(ExtractVocab, MaxExtractPieces)

InitExtract ==
    /\ \E sk \in {MainTaxonomy, SparseTaxonomy} : Loaded(sk, "lexical", DefaultThreshold)
    /\ worker = [w \in Workers |-> Idle]
    /\ probe \in {[pc |-> "call", text |-> t, role |-> r, result |-> <<>>] :
                     t \in ExtractTexts, r \in TargetRoles}

\* the call returns
call_extract_skills ==
    /\ probe.pc = "call"
    /\ probe' = [probe EXCEPT !.pc = "returned",
                              !.result = extract_skills(probe.text, probe.role)]
    /\ UNCHANGED <<shared, worker>>

SpecExtract == InitExtract /\ [][call_extract_skills]_vars

\* p occurs in t at position i with no letter or digit right before or after it
OccursBounded(p, t, i) ==
    /\ MatchAt(p, t, i)
    /\ (i > 1 => ~IsAlnum(t[i - 1]))
    /\ (i + Len(p) <= Len(t) => ~IsAlnum(t[i + Len(p)]))

Positions(t) == 1..(Len(t) + 1)

\* C4: a skill whose aliases list is empty is never in the result of the
\* lexical extract_skills.
C4_EmptyAliasesNeverMatched ==
    probe.pc = "returned" =>
        \A sid \in DOMAIN SKILL_BY_ID :
            SKILL_BY_ID[sid].aliases = <<>> => sid \notin DOMAIN probe.result

\* C7: every string reported in found_as occurs in the normalized text at a
\* place with no letter or digit right before or after it; a skill of the role
\* with such an occurrence of an alias is in the result; a skill whose aliases
\* occur in the text, but only inside longer alphanumeric tokens, is not.
C7_BoundaryMatching ==
    probe.pc = "returned" =>
        LET t == normalize_text(probe.text)
            aliasesOf(sid) == {Lower(a) : a \in Range(SKILL_BY_ID[sid].aliases)}
            bounded(sid) == \E a \in aliasesOf(sid) : \E i \in Positions(t) :
                                OccursBounded(a, t, i)
            occurs(sid) == \E a \in aliasesOf(sid) : \E i \in Positions(t) :
                               MatchAt(a, t, i)
        IN  /\ \A sid \in DOMAIN probe.result :
                  \A h \in Range(probe.result[sid].found_as) :
                      \E i \in Positions(t) : OccursBounded(h, t, i)
            /\ \A sid \in DOMAIN SKILL_BY_ID :
                  /\ (bounded(sid) /\ probe.role \in Range(SKILL_BY_ID[sid].roles))
                        => sid \in DOMAIN probe.result
                  /\ (occurs(sid) /\ ~bounded(sid)) => sid \notin DOMAIN probe.result

\* "Django" holds the alias "Go" only inside a longer token: go is not returned
C7_Witness ==
    /\ probe.pc = "returned"
    /\ probe.text = Djan \o Go
    /\ probe.role \in Range(SKILL_BY_ID["go"].roles)
    /\ "go" \notin DOMAIN probe.result

(***************************************************************************)
(* Concurrent requests: analyze step by step, one slot per request         *)
(***************************************************************************)
NumWorkers == 2

ConcJobTexts == Accepted({Must \o SpPython \o <<".">> \o SpGo \o SpK8s})
ConcResumeTexts == Accepted({SpGo})
ConcRows == {RowOf(h, 776, 0 - 200) : h \in {{}, {Python, K8s}}}

InitConc ==
    /\ \E v \in {"lexical", "semantic"} : \E th \in {DefaultThreshold, 0 - One} :
          /\ (v = "lexical" => th = DefaultThreshold)
          /\ Loaded(MainTaxonomy, v, th)
    /\ worker = [w \in 1..NumWorkers |-> Idle]
    /\ probe = NoProbe

\* the request is validated and handed to analyze
Receive(w) ==
    /\ worker[w].pc = "idle"
    /\ \E rt \in ConcResumeTexts, jt \in ConcJobTexts :
         \E rs \in ScoresFor(rt, ConcRows), js \in ScoresFor(jt, ConcRows) :
            worker' = [worker EXCEPT ![w] =
                [Idle EXCEPT !.pc = "extract_resume",
                             !.req = [resume_text |-> rt, job_text |-> jt,
                                      target_role |-> "backend"],
                             !.resume_scores = rs,
                             !.job_scores = js]]
    /\ UNCHANGED <<shared, probe>>

\* resume_sk = extract_skills(req.resume_text, req.target_role)
ExtractResume(w) ==
    /\ worker[w].pc = "extract_resume"
    /\ worker' = [worker EXCEPT ![w].pc = "extract_job",
                                ![w].resume_sk =
                                    Extract(worker[w].req.resume_text,
                                            worker[w].req.target_role,
                                            worker[w].resume_scores)]
    /\ UNCHANGED <<shared, probe>>

\* extract_skills that also marks the skills it found as core in the index
ExtractJobMarking(w) ==
    /\ worker[w].pc = "extract_job"
    /\ LET found == Extract(worker[w].req.job_text, worker[w].req.target_role,
                            worker[w].job_scores)
       IN  /\ worker' = [worker EXCEPT ![w].pc = "rank", ![w].job_sk = found]
           /\ SKILL_BY_ID' = [sid \in DOMAIN SKILL_BY_ID |->
                                 IF sid \in DOMAIN found
                                 THEN [SKILL_BY_ID[sid] EXCEPT !.level = "core"]
                                 ELSE SKILL_BY_ID[sid]]
    /\ UNCHANGED <<skills, PATTERNS, SKILL_EMBEDDINGS, skill_variant_map,
                   ML_SIMILARITY_THRESHOLD, variant, probe>>

\* job_sk = extract_skills(req.job_text, req.target_role)
ExtractJob(w) ==
    /\ worker[w].pc = "extract_job"
    /\ worker' = [worker EXCEPT ![w].pc = "rank",
                                ![w].job_sk =
                                    Extract(worker[w].req.job_text,
                                            worker[w].req.target_role,
                                            worker[w].job_scores)]
    /\ UNCHANGED <<shared, probe>>

\* matched_ids, missing_ids, the importance loop and the sort
RankMissing(w) ==
    /\ worker[w].pc = "rank"
    /\ worker' = [worker EXCEPT ![w].pc = "respond",
                                ![w].matched_ids =
                                    MatchedIds(worker[w].resume_sk, worker[w].job_sk),
                                ![w].ranked_missing =
                                    RankedMissing(worker[w].req.job_text,
                                                  worker[w].resume_sk,
                                                  worker[w].job_sk)]
    /\ UNCHANGED <<shared, probe>>

\* the two lists and the summary are built and returned
Respond(w) ==
    /\ worker[w].pc = "respond"
    /\ worker' = [worker EXCEPT ![w].pc = "done",
                                ![w].resp =
                                    Response(worker[w].req.target_role,
                                             MatchedOut(worker[w].matched_ids,
                                                        worker[w].resume_sk),
                                             MissingOut(worker[w].ranked_missing))]
    /\ UNCHANGED <<shared, probe>>

NextConc ==
    \E w \in 1..NumWorkers :
        \/ Receive(w)
        \/ ExtractResume(w)
        \/ ExtractJob(w)
        \/ RankMissing(w)
        \/ Respond(w)
        \/ Return(w)

SpecConc == InitConc /\ [][NextConc]_vars

\* C5: every confidence extract_skills returns and every importance
\* importance_score returns lies in [0.0, 1.0].
C5_ScoreBounds ==
    \A w \in DOMAIN worker :
        /\ \A sid \in DOMAIN worker[w].resume_sk :
              /\ worker[w].resume_sk[sid].confidence >= 0
              /\ worker[w].resume_sk[sid].confidence <= One
        /\ \A sid \in DOMAIN worker[w].job_sk :
              /\ worker[w].job_sk[sid].confidence >= 0
              /\ worker[w].job_sk[sid].confidence <= One
        /\ \A k \in 1..Len(worker[w].ranked_missing) :
              /\ worker[w].ranked_missing[k][2] >= 0
              /\ worker[w].ranked_missing[k][2] <= One

\* C8: no step of any request changes the taxonomy index, the compiled patterns
\* or the variant embeddings, and a request that ends holds exactly what the
\* same request yields when served alone, whatever the other requests did.
C8_Stateless ==
    /\ [][/\ SKILL_BY_ID' = SKILL_BY_ID
          /\ PATTERNS' = PATTERNS
          /\ SKILL_EMBEDDINGS' = SKILL_EMBEDDINGS
          /\ skill_variant_map' = skill_variant_map]_vars
    /\ [](\A w \in Done :
             worker[w] = Analyzed(worker[w].req, worker[w].resume_scores,
                                  worker[w].job_scores))

\* two requests in flight at once, one ended while the other is between its
\* two extractions
C8_Witness ==
    \E w1 \in DOMAIN worker : \E w2 \in DOMAIN worker :
        /\ worker[w1].pc = "done"
        /\ worker[w2].pc = "extract_job"
        /\ worker[w1].resp.missing # <<>>

====
